---- MODULE Spec2Model ----
(***************************************************************************)
(* Job_Mapper: the job discovery pipeline (backend/app/agents).            *)
(*                                                                         *)
(* Two state machines share this module:                                   *)
(*   Spec        one JobDiscoveryPipeline instance running its five stage  *)
(*               nodes over a PipelineState (pipeline.py); FairSpec adds   *)
(*               that a started run keeps being resumed;                   *)
(*   AgentSpec   direct calls of the agents' run methods on arbitrary      *)
(*               inputs (web_search.py, scraper.py, extraction.py).        *)
(*                                                                         *)
(* Conventions: a Python dict is a function whose DOMAIN is its key set,   *)
(* a list is a sequence, None is the value None.  Free text that the code  *)
(* only measures or truncates (page content, snippet, description) is      *)
(* represented by its length.  The outcome of a call is Return(v) or       *)
(* Raise(e).                                                               *)
(***************************************************************************)
EXTENDS Integers, Sequences, FiniteSets, TLC

VARIABLES
    llm,        \* ExtractionAgent.llm is set (an OpenAI key is configured)
    pinecone,   \* IndexingAgent.pinecone_index and .embeddings are set
    next_nodes, \* nodes the compiled graph runs next; {} when no run is going
    state,      \* the PipelineState of the current run
    result,     \* <<outcome>> once the last started run has handed its outcome
                \* to the caller of JobDiscoveryPipeline.run, <<>> before
    inputs,     \* per node entered by the current run: the node, its agent's
                \* argument and the agent's outcome, in order
    runs,       \* number of runs started
    next_id,    \* number of identifiers uuid.uuid4 has generated
    call,       \* the last direct agent call: agent, input, environment, outcome
    server,     \* the API process: the module global _vector_store, the
                \* VectorStore instances constructed, the requests received
    tasks       \* the runs of one pipeline started concurrently as tasks of
                \* one event loop, each with the state the graph holds for it

vars == <<llm, pinecone, next_nodes, state, result, inputs, runs, next_id, call,
          server, tasks>>

-----------------------------------------------------------------------------
(* Bounds *)

MaxRuns == 1            \* runs of the pipeline per behaviour
MaxResults == 1         \* raw results one search call returns (Spec)
MaxCallResults == 2     \* raw results one search call returns (AgentSpec)
MaxHits == 11           \* length of a list handed to ScraperAgent.run (AgentSpec)
MaxBadHits == 2         \* hits without url or with a failing fetch in that list
MaxPages == 2           \* length of a list handed to ExtractionAgent.run (AgentSpec)
MaxJobs == 2            \* length of a list handed to GeocodingAgent.run (AgentSpec)
MaxBatch == 3           \* length of a list handed to IndexingAgent.run (AgentSpec)
MaxRequests == 3        \* requests the search router receives (ServerSpec)

-----------------------------------------------------------------------------
(* Python values *)

None == "None"        \* None where a str is expected
NoText == -1          \* None where a text (represented by its length) is expected

Raise(e) == [raised |-> TRUE, cause |-> e]
Return(v) == [raised |-> FALSE, value |-> v]

\* dict.get(key, default)
Get(d, key, default) == IF key \in DOMAIN d THEN d[key] ELSE default

\* Python truthiness of an optional str, and of an optional text
Truthy(v) == v # None /\ v # ""
TruthyText(len) == len > 0

Min(a, b) == IF a <= b THEN a ELSE b

\* s[:n] of a list
Prefix(s, n) == SubSeq(s, 1, Min(Len(s), n))

\* s[:n] of a text represented by its length
Cut(len, n) == Min(len, n)

RemoveAt(s, k) == SubSeq(s, 1, k - 1) \o SubSeq(s, k + 1, Len(s))

RECURSIVE Flatten(_)
Flatten(ss) == IF ss = <<>> THEN <<>> ELSE Head(ss) \o Flatten(Tail(ss))

\* all sequences over S of length at most n
SeqUpTo(S, n) == UNION {[1..k -> S] : k \in 0..n}

-----------------------------------------------------------------------------
(* WebSearchAgent (web_search.py) *)

DEFAULT_QUERIES == <<"software engineer jobs India hiring 2024",
                     "developer jobs Bangalore hiring",
                     "tech jobs Mumbai hiring now",
                     "remote jobs India software",
                     "startup jobs Delhi NCR">>

\* queries = [query] if query else self.DEFAULT_QUERIES[:2]
Queries(query) == IF Truthy(query) THEN <<query>> ELSE Prefix(DEFAULT_QUERIES, 2)

\* the dict appended for one raw result of query q
Hit(raw, q) == [title |-> Get(raw, "title", ""),
                url |-> Get(raw, "href", ""),
                snippet |-> Get(raw, "body", 0),
                source_query |-> q]

HitsOf(raws, q) == [i \in 1..Len(raws) |-> Hit(raws[i], q)]

\* The for loop over queries.  ddgs[i] is what ddgs.text does for the i-th
\* query: Raise(e), or Return(list of raw results).
RECURSIVE Accumulate(_, _, _, _)
AccumulateStop(queries, ddgs, i, results) ==
    IF i > Len(queries) THEN results
    ELSE IF ddgs[i].raised
         THEN results
         ELSE Accumulate(queries, ddgs, i + 1,
                         results \o HitsOf(ddgs[i].value, queries[i]))
Accumulate(queries, ddgs, i, results) ==
    IF i > Len(queries) THEN results
    ELSE IF ddgs[i].raised
         THEN Accumulate(queries, ddgs, i + 1, results)
         ELSE Accumulate(queries, ddgs, i + 1,
                         results \o HitsOf(ddgs[i].value, queries[i]))

\* "Remove duplicates by URL": the loop over results with seen_urls
RECURSIVE Unique(_, _, _, _)
UniqueKeepLast(results, i, seen_urls, unique_results) ==
    IF i > Len(results) THEN unique_results
    ELSE IF \E j \in (i + 1)..Len(results) : results[j].url = results[i].url
         THEN Unique(results, i + 1, seen_urls, unique_results)
         ELSE Unique(results, i + 1, seen_urls \cup {results[i].url},
                     Append(unique_results, results[i]))
Unique(results, i, seen_urls, unique_results) ==
    IF i > Len(results) THEN unique_results
    ELSE IF results[i].url \notin seen_urls
         THEN Unique(results, i + 1, seen_urls \cup {results[i].url},
                     Append(unique_results, results[i]))
         ELSE Unique(results, i + 1, seen_urls, unique_results)

\* WebSearchAgent.run; max_results is handed to ddgs.text and bounds ddgs[i]
WebSearchRun(query, ddgs) ==
    Return(CHOOSE unique_results \in
             {Unique(results, 1, {}, <<>>) :
                results \in {Accumulate(Queries(query), ddgs, 1, <<>>)}} : TRUE)

-----------------------------------------------------------------------------
(* ScraperAgent (scraper.py) *)

ScrapeLimit == 10       \* urls[:10]
ContentLimit == 5000    \* text[:5000]

\* ScraperAgent._scrape_url: resp is what requests.get + raise_for_status +
\* the BeautifulSoup text extraction give: Raise(e) or Return(length of text)
ScrapeUrl(resp) ==
    IF resp.raised THEN NoText
    ELSE IF TruthyText(resp.value) THEN Cut(resp.value, ContentLimit) ELSE NoText

\* The for loop of ScraperAgent.run over urls[:10].  web[i] is the response
\* the i-th hit's url gets if it is fetched.  fetched collects the positions
\* for which _scrape_url was called.
RECURSIVE ScrapeLoop(_, _, _, _, _)
ScrapeLoopNoLimit(urls, web, i, scraped, fetched) ==
    IF i > Len(urls) THEN [scraped |-> scraped, fetched |-> fetched]
    ELSE LET item == urls[i]
             url == Get(item, "url", "")
         IN IF ~Truthy(url)
            THEN ScrapeLoop(urls, web, i + 1, scraped, fetched)
            ELSE LET content == ScrapeUrl(web[i])
                 IN ScrapeLoop(urls, web, i + 1,
                        IF TruthyText(content)
                        THEN Append(scraped, [url |-> url,
                                              title |-> Get(item, "title", ""),
                                              snippet |-> Get(item, "snippet", 0),
                                              content |-> content])
                        ELSE scraped,
                        Append(fetched, i))
ScrapeLoop(urls, web, i, scraped, fetched) ==
    IF i > Min(Len(urls), ScrapeLimit)
    THEN [scraped |-> scraped, fetched |-> fetched]
    ELSE LET item == urls[i]
             url == Get(item, "url", "")
         IN IF ~Truthy(url)
            THEN ScrapeLoop(urls, web, i + 1, scraped, fetched)
            ELSE LET content == ScrapeUrl(web[i])
                 IN ScrapeLoop(urls, web, i + 1,
                        IF TruthyText(content)
                        THEN Append(scraped, [url |-> url,
                                              title |-> Get(item, "title", ""),
                                              snippet |-> Get(item, "snippet", 0),
                                              content |-> content])
                        ELSE scraped,
                        Append(fetched, i))

\* ScraperAgent.run
ScraperRun(urls, web) == Return(ScrapeLoop(urls, web, 1, <<>>, <<>>).scraped)

\* the positions of urls for which ScraperAgent.run called _scrape_url
ScraperFetched(urls, web) == ScrapeLoop(urls, web, 1, <<>>, <<>>).fetched

-----------------------------------------------------------------------------
(* ExtractionAgent (extraction.py) *)

PromptLimit == 3000         \* content[:3000]
DescriptionLimit == 200     \* item.get("snippet", "")[:200]

\* ExtractedJob(...): pydantic rejects None for the str fields
ExtractedJob(job_title, company, location, apply_url, description) ==
    IF job_title = None \/ company = None \/ location = None
    THEN Raise("ValidationError")
    ELSE Return([job_title |-> job_title, company |-> company,
                 location |-> location, apply_url |-> apply_url,
                 description |-> description])

\* the ExtractedJob _mock_extract builds for one page
MockJob(item) ==
    IF Get(item, "snippet", 0) = NoText
    THEN Raise("TypeError")
    ELSE ExtractedJob(Get(item, "title", "Software Engineer"),
                      "Unknown Company",
                      "India",
                      Get(item, "url", ""),
                      Cut(Get(item, "snippet", 0), DescriptionLimit))

\* ExtractionAgent._mock_extract: the for loop over scraped_content
RECURSIVE MockExtract(_, _, _)
MockExtractTwice(scraped_content, i, jobs) ==
    IF i > Len(scraped_content) THEN Return(jobs)
    ELSE LET job == MockJob(scraped_content[i])
         IN IF job.raised THEN job
            ELSE MockExtract(scraped_content, i + 1,
                             Append(Append(jobs, job.value), job.value))
MockExtract(scraped_content, i, jobs) ==
    IF i > Len(scraped_content) THEN Return(jobs)
    ELSE LET job == MockJob(scraped_content[i])
         IN IF job.raised THEN job
            ELSE MockExtract(scraped_content, i + 1, Append(jobs, job.value))

\* The for loop of ExtractionAgent.run with the model.  model[i] is what
\* structured_llm.ainvoke does for the i-th page: Raise(e) or Return(job).
\* invoked collects, per call of the model, the page's position and the text
\* put into the prompt.
RECURSIVE LLMExtract(_, _, _, _, _)
LLMExtractStop(scraped_content, model, i, extracted_jobs, invoked) ==
    IF i > Len(scraped_content)
    THEN [jobs |-> extracted_jobs, invoked |-> invoked]
    ELSE LET item == scraped_content[i]
             content == Get(item, "content", 0)
         IN IF ~TruthyText(content)
            THEN LLMExtract(scraped_content, model, i + 1, extracted_jobs, invoked)
            ELSE IF model[i].raised
                 THEN [jobs |-> extracted_jobs,
                       invoked |-> Append(invoked, [page |-> i,
                                                    text |-> Cut(content, PromptLimit)])]
                 ELSE LET res == model[i].value
                          job == IF ~Truthy(res.apply_url)
                                 THEN [res EXCEPT !.apply_url = Get(item, "url", "")]
                                 ELSE res
                      IN LLMExtract(scraped_content, model, i + 1,
                                    Append(extracted_jobs, job),
                                    Append(invoked, [page |-> i,
                                                     text |-> Cut(content, PromptLimit)]))
LLMExtract(scraped_content, model, i, extracted_jobs, invoked) ==
    IF i > Len(scraped_content)
    THEN [jobs |-> extracted_jobs, invoked |-> invoked]
    ELSE LET item == scraped_content[i]
             content == Get(item, "content", 0)
         IN IF ~TruthyText(content)
            THEN LLMExtract(scraped_content, model, i + 1, extracted_jobs, invoked)
            ELSE IF model[i].raised
                 THEN LLMExtract(scraped_content, model, i + 1, extracted_jobs,
                                 Append(invoked, [page |-> i,
                                                  text |-> Cut(content, PromptLimit)]))
                 ELSE LET res == model[i].value
                          job == IF ~Truthy(res.apply_url)
                                 THEN [res EXCEPT !.apply_url = Get(item, "url", "")]
                                 ELSE res
                      IN LLMExtract(scraped_content, model, i + 1,
                                    Append(extracted_jobs, job),
                                    Append(invoked, [page |-> i,
                                                     text |-> Cut(content, PromptLimit)]))

\* ExtractionAgent.run
ExtractionRun(use_llm, scraped_content, model) ==
    IF ~use_llm
    THEN MockExtract(scraped_content, 1, <<>>)
    ELSE Return(LLMExtract(scraped_content, model, 1, <<>>, <<>>).jobs)

\* the calls of structured_llm.ainvoke ExtractionAgent.run made
ExtractionInvoked(use_llm, scraped_content, model) ==
    IF ~use_llm THEN <<>>
    ELSE LLMExtract(scraped_content, model, 1, <<>>, <<>>).invoked

-----------------------------------------------------------------------------
(* GeocodingAgent (geocoding.py).  Coordinates are in units of 0.0001 degree. *)

INDIA_CENTER == <<205937, 789629>>

CITY_CACHE == <<
    [key |-> "bangalore", coords |-> <<129716, 775946>>],
    [key |-> "bengaluru", coords |-> <<129716, 775946>>],
    [key |-> "mumbai",    coords |-> <<190760, 728777>>],
    [key |-> "delhi",     coords |-> <<286139, 772090>>],
    [key |-> "new delhi", coords |-> <<286139, 772090>>],
    [key |-> "hyderabad", coords |-> <<173850, 784867>>],
    [key |-> "chennai",   coords |-> <<130827, 802707>>],
    [key |-> "pune",      coords |-> <<185204, 738567>>],
    [key |-> "kolkata",   coords |-> <<225726, 883639>>],
    [key |-> "gurgaon",   coords |-> <<284595, 770266>>],
    [key |-> "gurugram",  coords |-> <<284595, 770266>>],
    [key |-> "noida",     coords |-> <<285355, 773910>>],
    [key |-> "ahmedabad", coords |-> <<230225, 725714>>],
    [key |-> "jaipur",    coords |-> <<269124, 757873>>],
    [key |-> "remote",    coords |-> INDIA_CENTER],
    [key |-> "india",     coords |-> INDIA_CENTER] >>

\* the letters str.lower() changes
LowerOf == [A |-> "a", B |-> "b", C |-> "c", D |-> "d", E |-> "e", F |-> "f",
            G |-> "g", H |-> "h", I |-> "i", J |-> "j", K |-> "k", L |-> "l",
            M |-> "m", N |-> "n", O |-> "o", P |-> "p", Q |-> "q", R |-> "r",
            S |-> "s", T |-> "t", U |-> "u", V |-> "v", W |-> "w", X |-> "x",
            Y |-> "y", Z |-> "z"]

LowerChar(c) == IF c \in DOMAIN LowerOf THEN LowerOf[c] ELSE c

\* str.lower().  (CHOOSE r \in {e(x) : x \in {v}} : TRUE is e(v) with v
\* evaluated once.)
RECURSIVE Lower(_)
Lower(s) ==
    CHOOSE r \in {IF Len(x) = 0 THEN ""
                  ELSE LowerChar(SubSeq(x, 1, 1)) \o Lower(SubSeq(x, 2, Len(x))) :
                  x \in {s}} : TRUE

\* str.strip()
RECURSIVE Strip(_)
Strip(s) ==
    CHOOSE r \in {IF Len(x) = 0 THEN x
                  ELSE IF SubSeq(x, 1, 1) = " " THEN Strip(SubSeq(x, 2, Len(x)))
                  ELSE IF SubSeq(x, Len(x), Len(x)) = " "
                       THEN Strip(SubSeq(x, 1, Len(x) - 1))
                  ELSE x :
                  x \in {s}} : TRUE

\* key in s
Contains(key, s) ==
    \E k \in 1..(Len(s) - Len(key) + 1) : SubSeq(s, k, k + Len(key) - 1) = key

\* the for loop over CITY_CACHE.items(): the first entry whose key is in
\* location_lower, as <<coords>>, or <<>> when the loop ends without a match
CacheLookupLast(location_lower) ==
    LET hits == {k \in 1..Len(CITY_CACHE) : Contains(CITY_CACHE[k].key, location_lower)}
    IN IF hits = {} THEN <<>>
       ELSE <<CITY_CACHE[CHOOSE k \in hits : \A m \in hits : k >= m].coords>>
CacheLookup(location_lower) ==
    LET hits == {k \in 1..Len(CITY_CACHE) : Contains(CITY_CACHE[k].key, location_lower)}
    IN IF hits = {} THEN <<>>
       ELSE <<CITY_CACHE[CHOOSE k \in hits : \A m \in hits : k <= m].coords>>

\* what the try block of _geocode_location does, in order, on a table miss
LookupStepsNoDelay == <<"geocode">>
LookupSteps == <<"time.sleep(1)", "geocode">>

\* GeocodingAgent._geocode_location.  lookup is what geolocator.geocode does
\* if it is called: Raise(e), Return(<<>>) for no result, or Return(<<coords>>).
\* slept and looked count the calls of time.sleep and of geolocator.geocode,
\* steps lists them in order.
GeocodeLocation(location, lookup) ==
    IF ~Truthy(location)
    THEN [out |-> Return(INDIA_CENTER), slept |-> 0, looked |-> 0, steps |-> <<>>]
    ELSE CHOOSE r \in
           {IF cached # <<>>
            THEN [out |-> Return(cached[1]), slept |-> 0, looked |-> 0,
                  steps |-> <<>>]
            ELSE [out |-> IF lookup.raised
                          THEN IF lookup.cause \in {"GeocoderTimedOut",
                                                    "GeocoderServiceError"}
                               THEN Return(INDIA_CENTER)
                               ELSE lookup
                          ELSE IF lookup.value # <<>>
                               THEN Return(lookup.value[1])
                               ELSE Return(INDIA_CENTER),
                  slept |-> 1, looked |-> 1, steps |-> LookupSteps] :
            cached \in {CacheLookup(location_lower) :
                           location_lower \in {Strip(Lower(location))}}} : TRUE

\* GeocodedJob(...) for a job and the coordinates found for it
GeocodedJob(job, coords) ==
    [job_title |-> job.job_title, company |-> job.company,
     location |-> job.location, apply_url |-> job.apply_url,
     description |-> job.description, lat |-> coords[1], lng |-> coords[2]]

\* GeocodingAgent.run: the for loop over extracted_jobs; geocoder[i] is the
\* lookup outcome for the i-th job.  called collects the positions of the jobs
\* _geocode_location was called for.
RECURSIVE GeocodeLoop(_, _, _, _, _)
GeocodeLoopSkipDefault(extracted_jobs, geocoder, i, geocoded_jobs, called) ==
    IF i > Len(extracted_jobs)
    THEN [out |-> Return(geocoded_jobs), called |-> called]
    ELSE LET job == extracted_jobs[i]
         IN CHOOSE r \in
              {IF res.raised THEN [out |-> res, called |-> Append(called, i)]
               ELSE GeocodeLoop(extracted_jobs, geocoder, i + 1,
                                IF res.value = INDIA_CENTER THEN geocoded_jobs
                                ELSE Append(geocoded_jobs, GeocodedJob(job, res.value)),
                                Append(called, i)) :
               res \in {GeocodeLocation(job.location, geocoder[i]).out}} : TRUE
GeocodeLoop(extracted_jobs, geocoder, i, geocoded_jobs, called) ==
    IF i > Len(extracted_jobs)
    THEN [out |-> Return(geocoded_jobs), called |-> called]
    ELSE LET job == extracted_jobs[i]
         IN CHOOSE r \in
              {IF res.raised THEN [out |-> res, called |-> Append(called, i)]
               ELSE GeocodeLoop(extracted_jobs, geocoder, i + 1,
                                Append(geocoded_jobs, GeocodedJob(job, res.value)),
                                Append(called, i)) :
               res \in {GeocodeLocation(job.location, geocoder[i]).out}} : TRUE

GeocodingRun(extracted_jobs, geocoder) ==
    GeocodeLoop(extracted_jobs, geocoder, 1, <<>>, <<>>).out

\* the positions of the jobs GeocodingAgent.run called _geocode_location for
GeocodingCalled(extracted_jobs, geocoder) ==
    GeocodeLoop(extracted_jobs, geocoder, 1, <<>>, <<>>).called

\* what the calls of _geocode_location of one run did, in order, each step
\* with the position of the job it was done for
GeocodingSteps(extracted_jobs, geocoder) ==
    LET called == GeocodingCalled(extracted_jobs, geocoder)
    IN Flatten([k \in 1..Len(called) |->
                   LET steps == GeocodeLocation(extracted_jobs[called[k]].location,
                                                geocoder[called[k]]).steps
                   IN [m \in 1..Len(steps) |-> [job |-> called[k], op |-> steps[m]]]])

-----------------------------------------------------------------------------
(* IndexingAgent (indexing.py).  uuid.uuid4() is the next value of a counter; *)
(* NoId stands for None where an identifier is expected.                      *)

NoId == 0

\* the JobPostingDB row built for one job
DbJob(job, job_id, embedding_id) ==
    [id |-> job_id, job_title |-> job.job_title, company |-> job.company,
     location |-> job.location,
     apply_url |-> IF Truthy(job.apply_url) THEN job.apply_url ELSE "",
     lat |-> job.lat, lng |-> job.lng, text |-> job.description,
     source |-> "pipeline", embedding_id |-> embedding_id]

\* the dict appended to indexed for one job
IndexedRecord(job, job_id) ==
    [id |-> job_id, job_title |-> job.job_title, company |-> job.company,
     location |-> job.location, lat |-> job.lat, lng |-> job.lng]

\* str(uuid.uuid4()): an identifier no earlier call returned.  first_id counts
\* the identifiers generated before the run, i the jobs of the run so far.
Uuid4PerBatch(first_id, i) == i
Uuid4(first_id, i) == first_id + i

\* embedding_id of a job: its job_id once embedding and upsert succeeded
EmbeddingIdAlways(upserted, job_id) == job_id
EmbeddingId(upserted, job_id) == IF upserted THEN job_id ELSE NoId

\* The for loop of IndexingAgent.run.  embed[i] tells whether aembed_query and
\* upsert succeed for the i-th job; db_fail = i in 1..Len(geocoded_jobs) makes
\* the session raise while the i-th row is added (0: no row does).
\* added is the session's pending rows, vectors the upserts that were made,
\* ids the number of identifiers generated.
RECURSIVE IndexLoop(_, _, _, _, _, _, _, _, _)
IndexLoop(geocoded_jobs, use_pinecone, embed, db_fail, first_id, i, indexed, added, vectors) ==
    IF i > Len(geocoded_jobs)
    THEN [indexed |-> indexed, added |-> added, vectors |-> vectors,
          raised |-> FALSE, ids |-> Len(geocoded_jobs)]
    ELSE LET job == geocoded_jobs[i]
             job_id == Uuid4(first_id, i)
             upserted == use_pinecone /\ embed[i]
             embedding_id == EmbeddingId(upserted, job_id)
             vectors2 == IF upserted THEN Append(vectors, job_id) ELSE vectors
         IN IF db_fail = i
            THEN [indexed |-> indexed, added |-> added, vectors |-> vectors2,
                  raised |-> TRUE, ids |-> i]
            ELSE IndexLoop(geocoded_jobs, use_pinecone, embed, db_fail, first_id,
                           i + 1, Append(indexed, IndexedRecord(job, job_id)),
                           Append(added, DbJob(job, job_id, embedding_id)),
                           vectors2)

\* db.commit() and db.rollback() on a session of sessionmaker(autocommit=False)
\* with the pending rows added: the rows that are durable afterwards
Commit(added) == added
RollbackAutocommit(added) == added
Rollback(added) == <<>>

\* what happens to the session of a run, in order: SessionLocal(), one db.add
\* per pending row, db.commit() or, after an exception, db.rollback(), and
\* db.close() in the finally clause
SessionCloseOnSuccess(adds, failed) ==
    <<"SessionLocal">> \o [k \in 1..adds |-> "add"]
        \o (IF failed THEN <<"rollback">> ELSE <<"commit", "close">>)
Session(adds, failed) ==
    <<"SessionLocal">> \o [k \in 1..adds |-> "add"]
        \o (IF failed THEN <<"rollback">> ELSE <<"commit">>) \o <<"close">>

\* IndexingAgent.run: its outcome and its effects on the two stores.
\* db_fail = Len(geocoded_jobs) + 1 makes db.commit() raise.
IndexingRunForgetOnRollback(geocoded_jobs, use_pinecone, embed, db_fail, first_id) ==
    LET loop == IndexLoop(geocoded_jobs, use_pinecone, embed, db_fail, first_id, 1,
                          <<>>, <<>>, <<>>)
        failed == loop.raised \/ db_fail = Len(geocoded_jobs) + 1
    IN [out |-> Return(IF failed THEN <<>> ELSE loop.indexed),
        committed |-> IF failed THEN Rollback(loop.added) ELSE Commit(loop.added),
        vectors |-> loop.vectors, rolled_back |-> failed, ids |-> loop.ids,
        session |-> Session(Len(loop.added), failed)]
IndexingRunRaises(geocoded_jobs, use_pinecone, embed, db_fail, first_id) ==
    LET loop == IndexLoop(geocoded_jobs, use_pinecone, embed, db_fail, first_id, 1,
                          <<>>, <<>>, <<>>)
        failed == loop.raised \/ db_fail = Len(geocoded_jobs) + 1
    IN [out |-> IF failed THEN Raise("OperationalError") ELSE Return(loop.indexed),
        committed |-> IF failed THEN Rollback(loop.added) ELSE Commit(loop.added),
        vectors |-> loop.vectors, rolled_back |-> failed, ids |-> loop.ids,
        session |-> Session(Len(loop.added), failed)]
IndexingRunUndoVectors(geocoded_jobs, use_pinecone, embed, db_fail, first_id) ==
    LET loop == IndexLoop(geocoded_jobs, use_pinecone, embed, db_fail, first_id, 1,
                          <<>>, <<>>, <<>>)
        failed == loop.raised \/ db_fail = Len(geocoded_jobs) + 1
    IN [out |-> Return(loop.indexed),
        committed |-> IF failed THEN Rollback(loop.added) ELSE Commit(loop.added),
        vectors |-> IF failed THEN <<>> ELSE loop.vectors,
        rolled_back |-> failed, ids |-> loop.ids,
        session |-> Session(Len(loop.added), failed)]
IndexingRun(geocoded_jobs, use_pinecone, embed, db_fail, first_id) ==
    LET loop == IndexLoop(geocoded_jobs, use_pinecone, embed, db_fail, first_id, 1,
                          <<>>, <<>>, <<>>)
        failed == loop.raised \/ db_fail = Len(geocoded_jobs) + 1
    IN [out |-> Return(loop.indexed),
        committed |-> IF failed THEN Rollback(loop.added) ELSE Commit(loop.added),
        vectors |-> loop.vectors, rolled_back |-> failed, ids |-> loop.ids,
        session |-> Session(Len(loop.added), failed)]

-----------------------------------------------------------------------------
(* What the external collaborators can do *)

RawResults ==
    { [title |-> "Python Developer", href |-> "https://a.example/jobs/1", body |-> 250],
      [title |-> "Java Developer", href |-> "https://b.example/jobs/2", body |-> 40],
      [href |-> "https://a.example/jobs/1"],
      [title |-> "Careers"] }

\* ddgs.text(q, region, max_results=n)
DdgsOutcomes(n) ==
    {Raise("RatelimitException")} \cup {Return(raws) : raws \in SeqUpTo(RawResults, n)}

\* requests.get, raise_for_status and the text BeautifulSoup leaves
Responses == {Raise("ReadTimeout"), Return(0), Return(6000)}

\* structured_llm.ainvoke
LLMJobs ==
    { [job_title |-> "Backend Developer", company |-> "Acme",
       location |-> "Bangalore", apply_url |-> None, description |-> 80],
      [job_title |-> "Data Engineer", company |-> "Initech",
       location |-> "Timbuktu", apply_url |-> "https://initech.example/apply",
       description |-> NoText] }

LLMOutcomes == {Raise("APIConnectionError")} \cup {Return(job) : job \in LLMJobs}

\* geolocator.geocode
Lookups == { Raise("GeocoderTimedOut"), Raise("GeocoderServiceError"),
             Raise("ValueError"), Return(<<>>), Return(<< <<167666, -29999>> >>) }

\* An exception that leaves an agent's run method: the case the try/except of
\* each stage node is written for.
\* WebSearchAgent.run and ScraperAgent.run wrap every external call in their
\* own try/except Exception, so they raise only when forced to (the agent is
\* replaced by one that fails), whatever their input.
ForcedFaults == {Raise("boom")}

\* ExtractionAgent, GeocodingAgent and IndexingAgent do their fallible work per
\* item of the list they are handed (a page _mock_extract cannot convert, a
\* lookup error _geocode_location does not catch, a session that cannot roll
\* back after a failed add), so they return [] for an empty list.
AgentFaults(arg) == IF arg = <<>> THEN {} ELSE {Raise("boom")}

-----------------------------------------------------------------------------
(* JobDiscoveryPipeline (pipeline.py) *)

END == "__end__"
EntryPoint == "search"

\* workflow.add_edge(...)
EdgesFanOut ==
    { <<"search", "scrape">>, <<"search", "extract">>, <<"scrape", "extract">>,
      <<"extract", "geocode">>, <<"geocode", "index">>, <<"index", END>> }
Edges ==
    { <<"search", "scrape">>, <<"scrape", "extract">>, <<"extract", "geocode">>,
      <<"geocode", "index">>, <<"index", END>> }

\* the nodes the compiled graph schedules once node has finished
Successors(node) == {e[2] : e \in {d \in Edges : d[1] = node}}

\* the nodes, the field each writes and the name in its error message
StageOrder == <<"search", "scrape", "extract", "geocode", "index">>
StageField == [search |-> "search_results", scrape |-> "scraped_content",
               extract |-> "extracted_jobs", geocode |-> "geocoded_jobs",
               index |-> "indexed_jobs"]
StageName == [search |-> "Search", scrape |-> "Scrape", extract |-> "Extraction",
              geocode |-> "Geocoding", index |-> "Indexing"]
StateFields == {"query", "search_results", "scraped_content", "extracted_jobs",
                "geocoded_jobs", "indexed_jobs", "error"}

\* the field of the state each node hands to its agent
StageArg == [search |-> "query", scrape |-> "search_results",
             extract |-> "scraped_content", geocode |-> "extracted_jobs",
             index |-> "geocoded_jobs"]

\* initial_state of run
InitialState(query) ==
    [query |-> IF Truthy(query) THEN query ELSE "",
     search_results |-> <<>>, scraped_content |-> <<>>, extracted_jobs |-> <<>>,
     geocoded_jobs |-> <<>>, indexed_jobs |-> <<>>, error |-> ""]

\* The try/except of a stage node: out is the outcome of the awaited agent
\* call, field the node's output list, name the node's error prefix.
\* escaped holds an exception the node lets through.
NodeBodyNoCatch(st, field, name, out) ==
    IF out.raised
    THEN [state |-> st, escaped |-> <<out.cause>>]
    ELSE [state |-> [st EXCEPT ![field] = out.value], escaped |-> <<>>]
NodeBodyKeepFirst(st, field, name, out) ==
    IF out.raised
    THEN [state |-> [st EXCEPT !.error = IF st.error = ""
                                         THEN name \o " error: " \o out.cause
                                         ELSE st.error,
                               ![field] = <<>>],
          escaped |-> <<>>]
    ELSE [state |-> [st EXCEPT ![field] = out.value], escaped |-> <<>>]
NodeBodyBareCause(st, field, name, out) ==
    IF out.raised
    THEN [state |-> [st EXCEPT !.error = out.cause, ![field] = <<>>],
          escaped |-> <<>>]
    ELSE [state |-> [st EXCEPT ![field] = out.value], escaped |-> <<>>]
NodeBodyClearsError(st, field, name, out) ==
    IF out.raised
    THEN [state |-> [st EXCEPT !.error = name \o " error: " \o out.cause,
                               ![field] = <<>>],
          escaped |-> <<>>]
    ELSE [state |-> [st EXCEPT ![field] = out.value, !.error = ""],
          escaped |-> <<>>]
NodeBody(st, field, name, out) ==
    IF out.raised
    THEN [state |-> [st EXCEPT !.error = name \o " error: " \o out.cause,
                               ![field] = <<>>],
          escaped |-> <<>>]
    ELSE [state |-> [st EXCEPT ![field] = out.value], escaped |-> <<>>]

\* what an agent call left in the relational store: whether the batch was
\* rolled back and the number of rows committed
NoEffect == [rolled_back |-> FALSE, rows |-> 0]

\* One node of the graph runs to completion: its agent was called with arg,
\* did out and left effect.  The graph then schedules the node's successors,
\* or, when the node let an exception through, ainvoke and run raise it to the
\* caller.
Step(node, field, name, arg, out, effect) ==
    LET r == NodeBody(state, field, name, out)
    IN /\ state' = r.state
       /\ inputs' = Append(inputs, [node |-> node, arg |-> arg, out |-> out,
                                    effect |-> effect])
       /\ IF r.escaped # <<>>
          THEN /\ next_nodes' = {}
               /\ result' = Append(result, Raise(r.escaped[1]))
          ELSE /\ next_nodes' = (next_nodes \ {node}) \cup Successors(node)
               /\ result' = result

RunQueries == {None, "python jobs Pune"}

\* JobDiscoveryPipeline.run up to graph.ainvoke(initial_state)
Run(query) ==
    /\ next_nodes = {}
    /\ runs < MaxRuns
    /\ runs' = runs + 1
    /\ state' = InitialState(query)
    /\ next_nodes' = {EntryPoint}
    /\ inputs' = <<>>
    /\ result' = <<>>
    /\ UNCHANGED <<llm, pinecone, server, tasks, next_id, call>>

SearchNode ==
    /\ "search" \in next_nodes
    /\ \E out \in ForcedFaults \cup
                  {WebSearchRun(state.query, ddgs) :
                      ddgs \in [1..Len(Queries(state.query)) -> DdgsOutcomes(MaxResults)]} :
          Step("search", "search_results", "Search", state.query, out, NoEffect)
    /\ UNCHANGED <<llm, pinecone, server, tasks, runs, next_id, call>>

ScrapeNode ==
    /\ "scrape" \in next_nodes
    /\ \E out \in ForcedFaults \cup
                  {ScraperRun(state.search_results, web) :
                      web \in [1..Len(state.search_results) -> Responses]} :
          Step("scrape", "scraped_content", "Scrape", state.search_results, out, NoEffect)
    /\ UNCHANGED <<llm, pinecone, server, tasks, runs, next_id, call>>

ExtractNode ==
    /\ "extract" \in next_nodes
    /\ \E out \in AgentFaults(state.scraped_content) \cup
                  {ExtractionRun(llm, state.scraped_content, model) :
                      model \in [1..Len(state.scraped_content) -> LLMOutcomes]} :
          Step("extract", "extracted_jobs", "Extraction", state.scraped_content, out, NoEffect)
    /\ UNCHANGED <<llm, pinecone, server, tasks, runs, next_id, call>>

GeocodeNode ==
    /\ "geocode" \in next_nodes
    /\ \E out \in AgentFaults(state.extracted_jobs) \cup
                  {GeocodingRun(state.extracted_jobs, geocoder) :
                      geocoder \in [1..Len(state.extracted_jobs) -> Lookups]} :
          Step("geocode", "geocoded_jobs", "Geocoding", state.extracted_jobs, out, NoEffect)
    /\ UNCHANGED <<llm, pinecone, server, tasks, runs, next_id, call>>

IndexNode ==
    /\ "index" \in next_nodes
    /\ \/ /\ \E out \in AgentFaults(state.geocoded_jobs) :
                Step("index", "indexed_jobs", "Indexing", state.geocoded_jobs, out, NoEffect)
          /\ UNCHANGED next_id
       \/ \E embed \in [1..Len(state.geocoded_jobs) -> BOOLEAN],
             db_fail \in 0..(Len(state.geocoded_jobs) + 1) :
             LET r == IndexingRun(state.geocoded_jobs, pinecone, embed, db_fail, next_id)
             IN /\ Step("index", "indexed_jobs", "Indexing", state.geocoded_jobs, r.out,
                        [rolled_back |-> r.rolled_back, rows |-> Len(r.committed)])
                /\ next_id' = next_id + r.ids
    /\ UNCHANGED <<llm, pinecone, server, tasks, runs, call>>

\* graph.ainvoke returns final_state and run returns it
RunReturn ==
    /\ next_nodes = {END}
    /\ next_nodes' = {}
    /\ result' = Append(result, Return(state))
    /\ UNCHANGED <<llm, pinecone, server, tasks, state, inputs, runs, next_id, call>>

NoCall == [agent |-> "none"]

\* vectorstore.py at import: _vector_store is None, nothing constructed
NoServer == [vector_store |-> NoId, made |-> <<>>, requests |-> <<>>]

\* a task that has not called run yet
NoTask == [started |-> FALSE, query |-> None, state |-> InitialState(None),
           next_nodes |-> {}, inputs |-> <<>>, result |-> <<>>]
ConcurrentRuns == 2

\* The agents as constructed: without keys, with the OpenAI key only, or with
\* the OpenAI and Pinecone keys.
Init ==
    /\ llm \in BOOLEAN
    /\ pinecone \in BOOLEAN
    /\ pinecone => llm
    /\ next_nodes = {}
    /\ state = InitialState(None)
    /\ result = <<>>
    /\ inputs = <<>>
    /\ runs = 0
    /\ next_id = 0
    /\ call = NoCall
    /\ server = NoServer
    /\ tasks = [t \in 1..ConcurrentRuns |-> NoTask]

Next ==
    \/ \E query \in RunQueries : Run(query)
    \/ SearchNode
    \/ ScrapeNode
    \/ ExtractNode
    \/ GeocodeNode
    \/ IndexNode
    \/ RunReturn

Spec == Init /\ [][Next]_vars

\* a step of a run that has been started
Progress == SearchNode \/ ScrapeNode \/ ExtractNode \/ GeocodeNode \/ IndexNode
            \/ RunReturn

\* The event loop resumes the coroutine of a started run until it returns:
\* every agent call comes back (the external calls carry timeouts).
FairSpec == Spec /\ WF_vars(Progress)

-----------------------------------------------------------------------------
(* Direct calls of the agents (AgentSpec): one call per behaviour, on any    *)
(* input of the bounded sets below; IndexingAgent.run may be called a second *)
(* time on the list of its first call.                                       *)

\* A list of n hits with distinct urls for ScraperAgent.run and the responses
\* their urls get.  kinds maps the positions of the hits that are not plainly
\* fetchable to what is wrong with them: the request fails, the page has no
\* text, the url is empty, or the dict has no "url" key.
BadKinds == {"fail", "empty", "nourl", "nokey"}

HitAt(i, kind) ==
    IF kind = "nokey"
    THEN [title |-> "Job " \o ToString(i), snippet |-> 100, source_query |-> "jobs"]
    ELSE [title |-> "Job " \o ToString(i),
          url |-> IF kind = "nourl" THEN "" ELSE "https://jobs.example/" \o ToString(i),
          snippet |-> 100, source_query |-> "jobs"]

ResponseAt(i, kind) ==
    IF kind = "fail" THEN Raise("ReadTimeout")
    ELSE IF kind = "empty" THEN Return(0)
    ELSE Return(6000)

KindAt(kinds, i) == IF i \in DOMAIN kinds THEN kinds[i] ELSE "ok"

ScraperInputs ==
    { [urls |-> [i \in 1..n |-> HitAt(i, KindAt(kinds, i))],
       web |-> [i \in 1..n |-> ResponseAt(i, KindAt(kinds, i))]] :
      n \in 0..MaxHits,
      kinds \in UNION {[bad -> BadKinds] :
                         bad \in {b \in SUBSET (1..MaxHits) :
                                     Cardinality(b) <= MaxBadHits}} }

\* pages for ExtractionAgent.run: as the scraper builds them (the title is ""
\* when the search hit had none), with keys missing, and with null values
PageInputs ==
    { [url |-> "https://a.example/jobs/1", title |-> "Python Developer",
       snippet |-> 250, content |-> 5000],
      [url |-> "https://b.example/jobs/2", title |-> "Java Developer",
       snippet |-> 40, content |-> 0],
      [url |-> "https://c.example/jobs/3", title |-> "Go Developer", snippet |-> 40],
      [url |-> "https://d.example/jobs/4", title |-> "", snippet |-> 0,
       content |-> 120],
      [content |-> 300],
      [url |-> "https://e.example/jobs/5", title |-> None, snippet |-> 40,
       content |-> 300],
      [url |-> None, title |-> "Rust Developer", snippet |-> NoText,
       content |-> 300] }

WebSearchCall ==
    /\ call = NoCall
    /\ \E query \in RunQueries :
       \E ddgs \in [1..Len(Queries(query)) -> DdgsOutcomes(MaxCallResults)] :
          call' = [agent |-> "web_search", query |-> query, ddgs |-> ddgs,
                   results |-> Accumulate(Queries(query), ddgs, 1, <<>>),
                   out |-> WebSearchRun(query, ddgs)]
    /\ UNCHANGED <<llm, pinecone, server, tasks, next_nodes, state, result, inputs, runs, next_id>>

ScraperCall ==
    /\ call = NoCall
    /\ \E in \in ScraperInputs :
          call' = [agent |-> "scraper", urls |-> in.urls, web |-> in.web,
                   out |-> ScraperRun(in.urls, in.web),
                   fetched |-> ScraperFetched(in.urls, in.web)]
    /\ UNCHANGED <<llm, pinecone, server, tasks, next_nodes, state, result, inputs, runs, next_id>>

ExtractionCall ==
    /\ call = NoCall
    /\ \E pages \in SeqUpTo(PageInputs, MaxPages) :
       \E model \in IF llm THEN [1..Len(pages) -> LLMOutcomes] ELSE {<<>>} :
          call' = [agent |-> "extraction", pages |-> pages, model |-> model,
                   out |-> ExtractionRun(llm, pages, model),
                   invoked |-> ExtractionInvoked(llm, pages, model)]
    /\ UNCHANGED <<llm, pinecone, server, tasks, next_nodes, state, result, inputs, runs, next_id>>

\* location strings for _geocode_location
Locations ==
    { None, "", "Koramangala, Bangalore", "  NEW DELHI ", "Pune / Mumbai",
      "Gurugram", "Remote", "Timbuktu" }

GeocodeLocationCall ==
    /\ call = NoCall
    /\ \E location \in Locations, lookup \in Lookups :
          LET r == GeocodeLocation(location, lookup)
          IN call' = [agent |-> "geocode_location", location |-> location,
                      lookup |-> lookup, out |-> r.out, slept |-> r.slept,
                      looked |-> r.looked, steps |-> r.steps]
    /\ UNCHANGED <<llm, pinecone, server, tasks, next_nodes, state, result, inputs, runs, next_id>>

\* jobs for GeocodingAgent.run: what the model returns, what _mock_extract
\* builds, and a job with an empty location
ExtractedInputs ==
    LLMJobs \cup
    { [job_title |-> "Python Developer", company |-> "Unknown Company",
       location |-> "India", apply_url |-> "https://a.example/jobs/1",
       description |-> 200],
      [job_title |-> "QA Engineer", company |-> "Globex", location |-> "",
       apply_url |-> None, description |-> 10] }

GeocodingCall ==
    /\ call = NoCall
    /\ \E jobs \in SeqUpTo(ExtractedInputs, MaxJobs) :
       \E geocoder \in [1..Len(jobs) -> Lookups] :
          call' = [agent |-> "geocoding", jobs |-> jobs, geocoder |-> geocoder,
                   out |-> GeocodingRun(jobs, geocoder),
                   called |-> GeocodingCalled(jobs, geocoder),
                   steps |-> GeocodingSteps(jobs, geocoder)]
    /\ UNCHANGED <<llm, pinecone, server, tasks, next_nodes, state, result, inputs, runs, next_id>>

\* jobs for IndexingAgent.run
GeocodedInputs ==
    { [job_title |-> "Backend Developer", company |-> "Acme",
       location |-> "Bangalore", apply_url |-> "https://a.example/jobs/1",
       description |-> 80, lat |-> 129716, lng |-> 775946],
      [job_title |-> "Data Engineer", company |-> "Initech",
       location |-> "Timbuktu", apply_url |-> None,
       description |-> NoText, lat |-> 205937, lng |-> 789629] }

\* whether embedding and upsert succeed per job; never asked without an index
EmbedOutcomes(n) == IF pinecone THEN [1..n -> BOOLEAN] ELSE {[i \in 1..n |-> FALSE]}

\* One call of IndexingAgent.run on jobs with the table job_postings holding
\* the rows db, as the run-th call of the behaviour.
Indexing(jobs, db, run) ==
    /\ \E embed \in EmbedOutcomes(Len(jobs)), db_fail \in 0..(Len(jobs) + 1) :
          LET r == IndexingRun(jobs, pinecone, embed, db_fail, next_id)
          IN /\ call' = [agent |-> "indexing", run |-> run, jobs |-> jobs,
                         embed |-> embed, db_fail |-> db_fail, out |-> r.out,
                         committed |-> r.committed, rolled_back |-> r.rolled_back,
                         session |-> r.session, vectors |-> r.vectors,
                         ids_before |-> 1..next_id,
                         ids |-> [i \in 1..r.ids |-> Uuid4(next_id, i)],
                         db_before |-> db, db |-> db \o r.committed]
             /\ next_id' = next_id + r.ids
    /\ UNCHANGED <<llm, pinecone, server, tasks, next_nodes, state, result, inputs, runs>>

IndexingCall ==
    /\ call = NoCall
    /\ \E jobs \in SeqUpTo(GeocodedInputs, MaxBatch) : Indexing(jobs, <<>>, 1)

IndexingAgain ==
    /\ call.agent = "indexing"
    /\ call.run = 1
    /\ Indexing(call.jobs, call.db, 2)

AgentNext ==
    \/ IndexingCall
    \/ IndexingAgain
    \/ WebSearchCall
    \/ ScraperCall
    \/ ExtractionCall
    \/ GeocodeLocationCall
    \/ GeocodingCall

AgentSpec == Init /\ [][AgentNext]_vars

-----------------------------------------------------------------------------
(* The search router and the vector store singleton (ServerSpec):            *)
(* routers/search.py, vectorstore.py                                         *)

Endpoints == {"semantic_search", "index_sample_jobs", "get_stats"}

\* VectorStore(): the n-th instance constructed in the process.  _initialize
\* leaves index None without an OpenAI key and when a client call raises.
VectorStore(n, connected) == [id |-> n, index |-> connected]

Connections == IF llm THEN BOOLEAN ELSE {FALSE}

\* The points of get_vector_store at which its caller can be suspended and
\* another caller can run.  The three handlers are coroutines of one event
\* loop and get_vector_store awaits nothing, so there is none; "checked" is
\* the point between the test of _vector_store and the assignment to it.
SuspensionPointsThreaded == {"checked"}
SuspensionPoints == {}

\* get_vector_store for a caller at pc, as far as it runs without suspension
GetVectorStore(pc, vector_store, made, connected) ==
    IF pc = "start" /\ vector_store # NoId
    THEN [pc |-> "done", vector_store |-> vector_store, made |-> made,
          vs |-> vector_store]
    ELSE IF pc = "start" /\ "checked" \in SuspensionPoints
    THEN [pc |-> "checked", vector_store |-> vector_store, made |-> made,
          vs |-> NoId]
    ELSE LET new == VectorStore(Len(made) + 1, connected)
         IN [pc |-> "done", vector_store |-> new.id, made |-> Append(made, new),
             vs |-> new.id]

\* a request for one of the endpoints arrives: its handler is scheduled
Request(endpoint) ==
    /\ Len(server.requests) < MaxRequests
    /\ server' = [server EXCEPT !.requests =
                      Append(@, [endpoint |-> endpoint, pc |-> "start", vs |-> NoId])]
    /\ UNCHANGED <<llm, pinecone, next_nodes, state, result, inputs, runs, next_id,
                   call, tasks>>

\* the event loop runs the handler of request k: vs = get_vector_store(), then
\* the method of vs the endpoint stands for
Handle(k) ==
    /\ server.requests[k].pc # "done"
    /\ \E connected \in Connections :
          LET r == GetVectorStore(server.requests[k].pc, server.vector_store,
                                  server.made, connected)
          IN server' = [vector_store |-> r.vector_store, made |-> r.made,
                        requests |-> [server.requests EXCEPT
                                         ![k] = [@ EXCEPT !.pc = r.pc, !.vs = r.vs]]]
    /\ UNCHANGED <<llm, pinecone, next_nodes, state, result, inputs, runs, next_id,
                   call, tasks>>

ServerNext ==
    \/ \E endpoint \in Endpoints : Request(endpoint)
    \/ \E k \in 1..Len(server.requests) : Handle(k)

ServerSpec == Init /\ [][ServerNext]_vars

-----------------------------------------------------------------------------
(* Runs of one JobDiscoveryPipeline started concurrently (ConcSpec): each is *)
(* a task of the event loop and the tasks interleave node by node.           *)

\* The task whose PipelineState a node of task t reads and writes: run builds
\* initial_state as a local dict and hands it to graph.ainvoke, which keeps
\* the state of each invocation apart; the pipeline object holds only the
\* agents and the compiled graph.
OwnerShared(t) == 1
Owner(t) == t

\* what the collaborators do for the runs of ConcSpec
TaskRaw == [title |-> "Python Developer", href |-> "https://a.example/jobs/1", body |-> 250]
TaskDdgs == {Raise("RatelimitException"), Return(<<TaskRaw>>)}
TaskResponses == {Raise("ReadTimeout"), Return(6000)}
TaskLookups == {Raise("GeocoderTimedOut"), Return(<< <<167666, -29999>> >>)}

\* the outcomes of the agent of node called with arg
TaskOutcomes(node, arg) ==
    CASE node = "search" ->
           ForcedFaults \cup {WebSearchRun(arg, ddgs) :
                                 ddgs \in [1..Len(Queries(arg)) -> TaskDdgs]}
      [] node = "scrape" ->
           ForcedFaults \cup {ScraperRun(arg, web) :
                                 web \in [1..Len(arg) -> TaskResponses]}
      [] node = "extract" ->
           AgentFaults(arg) \cup {ExtractionRun(llm, arg, model) :
                                     model \in [1..Len(arg) -> LLMOutcomes]}
      [] node = "geocode" ->
           AgentFaults(arg) \cup {GeocodingRun(arg, geocoder) :
                                     geocoder \in [1..Len(arg) -> TaskLookups]}
      [] node = "index" ->
           AgentFaults(arg) \cup
           {IndexingRun(arg, pinecone, embed, db_fail, next_id).out :
               embed \in EmbedOutcomes(Len(arg)), db_fail \in {0, Len(arg) + 1}}

\* task t calls run(query): initial_state, then graph.ainvoke up to its first
\* suspension
TaskRun(t, query) ==
    /\ ~tasks[t].started
    /\ tasks' = [[tasks EXCEPT ![t] = [started |-> TRUE, query |-> query,
                                       state |-> @.state,
                                       next_nodes |-> {EntryPoint},
                                       inputs |-> <<>>, result |-> <<>>]]
                     EXCEPT ![Owner(t)].state = InitialState(query)]
    /\ UNCHANGED <<llm, pinecone, next_nodes, state, result, inputs, runs, next_id,
                   call, server>>

\* the event loop resumes task t for one node of its graph
TaskStep(t) ==
    /\ tasks[t].started
    /\ \E node \in tasks[t].next_nodes \ {END} :
          LET arg == tasks[Owner(t)].state[StageArg[node]]
          IN \E out \in TaskOutcomes(node, arg) :
                LET r == NodeBody(tasks[Owner(t)].state, StageField[node],
                                  StageName[node], out)
                IN /\ tasks' = [[tasks EXCEPT
                                    ![t].inputs = Append(@, [node |-> node, arg |-> arg,
                                                             out |-> out]),
                                    ![t].next_nodes = IF r.escaped # <<>> THEN {}
                                                      ELSE (@ \ {node}) \cup Successors(node),
                                    ![t].result = IF r.escaped # <<>>
                                                  THEN <<Raise(r.escaped[1])>> ELSE @]
                                    EXCEPT ![Owner(t)].state = r.state]
                   /\ next_id' = IF node = "index" /\ ~out.raised
                                 THEN next_id + Len(arg) ELSE next_id
    /\ UNCHANGED <<llm, pinecone, next_nodes, state, result, inputs, runs, call, server>>

\* graph.ainvoke of task t returns the final state and run returns it
TaskReturn(t) ==
    /\ tasks[t].next_nodes = {END}
    /\ tasks' = [tasks EXCEPT ![t].next_nodes = {},
                              ![t].result = <<Return(tasks[Owner(t)].state)>>]
    /\ UNCHANGED <<llm, pinecone, next_nodes, state, result, inputs, runs, next_id,
                   call, server>>

ConcNext ==
    \/ \E t \in 1..ConcurrentRuns, query \in RunQueries : TaskRun(t, query)
    \/ \E t \in 1..ConcurrentRuns : TaskStep(t)
    \/ \E t \in 1..ConcurrentRuns : TaskReturn(t)

ConcSpec == Init /\ [][ConcNext]_vars

-----------------------------------------------------------------------------
(* Properties of the pipeline (Spec, FairSpec) *)

\* the nodes the current run has executed, in order
Trace == [i \in 1..Len(inputs) |-> inputs[i].node]

\* positions in inputs of the nodes whose agent raised
Failures == {i \in 1..Len(inputs) : inputs[i].out.raised}

\* the tag the node at position i of inputs records
Tag(i) == StageName[inputs[i].node] \o " error: " \o inputs[i].out.cause

Returned == result # <<>> /\ ~result[1].raised

\* C1: the nodes a run has executed are always an initial part of search,
\* scrape, extract, geocode, index (none skipped, repeated or out of order), at
\* most one node is scheduled at a time and it is the next one in that order,
\* and a run that has come back executed all five, whatever stages failed.
C1_StagesInFixedOrder ==
    /\ Len(inputs) <= Len(StageOrder)
    /\ Trace = SubSeq(StageOrder, 1, Len(inputs))
    /\ Cardinality(next_nodes) <= 1
    /\ \A n \in next_nodes :
          IF Len(inputs) < Len(StageOrder)
          THEN n = StageOrder[Len(inputs) + 1]
          ELSE n = END
    /\ result # <<>> => Trace = StageOrder

C1_Witness ==
    /\ Returned
    /\ Trace = StageOrder
    /\ Failures = {1, 2}

\* C2: whenever the agent of a node raised, the node's own output list is
\* empty; right after that node the error slot holds "<StageName> error:
\* <cause>"; the run goes on: the next node is scheduled, is the next one to
\* execute and is handed the empty list, and the run comes back normally.
C2_FailedStageContinues ==
    \A i \in Failures :
        /\ state[StageField[inputs[i].node]] = <<>>
        /\ i = Len(inputs) => state.error = Tag(i)
        /\ (i = Len(inputs) /\ result = <<>>) =>
              next_nodes = {IF i < Len(StageOrder) THEN StageOrder[i + 1] ELSE END}
        /\ i < Len(inputs) =>
              /\ inputs[i + 1].node = StageOrder[i + 1]
              /\ inputs[i + 1].arg = <<>>
        /\ result # <<>> => Returned

C2_Witness ==
    /\ Len(inputs) = 3
    /\ Failures = {2}
    /\ state.search_results # <<>>
    /\ inputs[3].arg = <<>>
    /\ state.error = "Scrape error: boom"

\* C3: no run hands an exception to its caller, and every started run comes
\* back with a PipelineState, whatever the collaborators did.
C3_RunAlwaysReturns ==
    /\ [](\A i \in 1..Len(result) :
             ~result[i].raised /\ DOMAIN result[i].value = StateFields)
    /\ (next_nodes # {}) ~> Returned

C3_Witness ==
    /\ Returned
    /\ Failures = {1}
    /\ result[1].value.indexed_jobs = <<>>
    /\ result[1].value.error = "Search error: boom"

\* C4: when stages failed in a run that has come back, the error slot of the
\* returned state is the tag of the last of them; the tag of every earlier
\* failed stage differs from it and the state has no other slot for errors.
C4_LastErrorWins ==
    (result # <<>> /\ Failures # {}) =>
        LET last == CHOOSE i \in Failures : \A j \in Failures : j <= i
        IN /\ Returned
           /\ DOMAIN result[1].value = StateFields
           /\ result[1].value.error = Tag(last)
           /\ \A i \in Failures \ {last} :
                 /\ Tag(i) # result[1].value.error
                 /\ Tag(i) # result[1].value.query

C4_Witness ==
    /\ Returned
    /\ Failures = {1, 2}
    /\ result[1].value.error = "Scrape error: boom"

\* C5: when the scrape stage failed as a whole, the run comes back normally,
\* scraped_content, extracted_jobs, geocoded_jobs and indexed_jobs of the
\* returned state are empty and its error is the scrape stage's message.
C5_ScrapeFailureDegrades ==
    (result # <<>> /\ 2 \in Failures) =>
        /\ Returned
        /\ result[1].value.scraped_content = <<>>
        /\ result[1].value.extracted_jobs = <<>>
        /\ result[1].value.geocoded_jobs = <<>>
        /\ result[1].value.indexed_jobs = <<>>
        /\ result[1].value.error = "Scrape error: " \o inputs[2].out.cause

C5_Witness ==
    /\ Returned
    /\ 2 \in Failures
    /\ Len(result[1].value.search_results) = 2
    /\ result[1].value.error = "Scrape error: boom"

\* C6: in every state of a run, and in the state it returns, no stage's output
\* list is longer than the list of the stage before it.
Shrinking(st) ==
    /\ Len(st.indexed_jobs) <= Len(st.geocoded_jobs)
    /\ Len(st.geocoded_jobs) <= Len(st.extracted_jobs)
    /\ Len(st.extracted_jobs) <= Len(st.scraped_content)
    /\ Len(st.scraped_content) <= Len(st.search_results)

C6_OutputsShrink ==
    /\ Shrinking(state)
    /\ \A i \in 1..Len(result) : ~result[i].raised => Shrinking(result[i].value)

C6_Witness ==
    /\ Returned
    /\ Len(result[1].value.search_results) = 2
    /\ Len(result[1].value.scraped_content) = 2
    /\ Len(result[1].value.extracted_jobs) = 1
    /\ Len(result[1].value.geocoded_jobs) = 1
    /\ Len(result[1].value.indexed_jobs) = 1

\* the error slot as the nodes before position i of inputs left it
ErrorBefore(i) ==
    LET earlier == {j \in Failures : j < i}
    IN IF earlier = {} THEN ""
       ELSE Tag(CHOOSE j \in earlier : \A m \in earlier : m <= j)

\* C26: when the batch of the index stage was rolled back inside
\* IndexingAgent.run, the agent still returned: the index node stored the
\* returned list in indexed_jobs and left the error slot as the earlier nodes
\* had left it (empty when none failed), although no row was committed.
C26_DbFailureHiddenFromRun ==
    \A i \in 1..Len(inputs) :
        (inputs[i].node = "index" /\ inputs[i].effect.rolled_back) =>
            /\ ~inputs[i].out.raised
            /\ inputs[i].effect.rows = 0
            /\ state.indexed_jobs = inputs[i].out.value
            /\ state.error = ErrorBefore(i)
            /\ result # <<>> => result[1] = Return(state)

C26_Witness ==
    /\ Returned
    /\ Failures = {}
    /\ inputs[5].effect.rolled_back
    /\ inputs[5].effect.rows = 0
    /\ result[1].value.error = ""
    /\ Len(result[1].value.indexed_jobs) = 1

\* C27: a step in which a node runs changes, of the state, only the node's
\* own output list and, when its agent raised, the error slot: the query and
\* the lists of the other stages stay as they were, a node whose agent
\* returned stores the returned list and leaves the error slot as it was, and
\* a node whose agent raised stores the empty list and its error message.
C27_NodesWriteOwnFieldOnly ==
    [][Len(inputs') = Len(inputs) + 1 =>
          LET e == inputs'[Len(inputs')]
              own == StageField[e.node]
          IN /\ \A f \in StateFields \ {own, "error"} : state'[f] = state[f]
             /\ ~e.out.raised => /\ state'[own] = e.out.value
                                 /\ state'.error = state.error
             /\ e.out.raised => /\ state'[own] = <<>>
                                /\ state'.error = StageName[e.node] \o " error: "
                                                      \o e.out.cause]_vars

C27_Witness ==
    /\ Returned
    /\ Failures = {2}
    /\ Len(state.search_results) = 2
    /\ state.query = ""
    /\ state.error = "Scrape error: boom"

-----------------------------------------------------------------------------
(* Properties of the agents (AgentSpec) *)

Called(agent) == call.agent = agent

Urls(hits) == {hits[i].url : i \in 1..Len(hits)}

\* position of the first hit of hits with the given url
FirstAt(hits, url) == CHOOSE i \in 1..Len(hits) :
                          /\ hits[i].url = url
                          /\ \A j \in 1..(i - 1) : hits[j].url # url

\* C7: the list WebSearchAgent.run returns has no url twice, has every url of
\* the accumulated hits, holds for each url the first accumulated hit with
\* that url (source_query included), and lists them in first-seen order.
C7_DedupFirstSeen ==
    Called("web_search") =>
        LET acc == call.results
            unique == call.out.value
        IN /\ ~call.out.raised
           /\ \A i, j \in 1..Len(unique) : i # j => unique[i].url # unique[j].url
           /\ Urls(unique) = Urls(acc)
           /\ \A i \in 1..Len(unique) : unique[i] = acc[FirstAt(acc, unique[i].url)]
           /\ \A i, j \in 1..Len(unique) :
                 i < j => FirstAt(acc, unique[i].url) < FirstAt(acc, unique[j].url)

C7_Witness ==
    /\ Called("web_search")
    /\ Len(call.results) = 4
    /\ Len(call.out.value) = 2
    /\ call.results[1].url = call.results[3].url
    /\ call.results[1].source_query # call.results[3].source_query
    /\ call.results[1].title # call.results[3].title
    /\ call.out.value[1] = call.results[1]

\* the hits the queries whose search call did not fail returned, in order
HitsOfAnswered(queries, ddgs) ==
    Flatten([i \in 1..Len(queries) |->
                IF ddgs[i].raised THEN <<>> ELSE HitsOf(ddgs[i].value, queries[i])])

\* C8: WebSearchAgent.run returns, whichever search calls fail, and what it
\* accumulates is exactly the hits of the queries whose search call did not
\* fail: a failed query adds nothing, removes nothing and stops nothing.
C8_QueryFailureIsolated ==
    Called("web_search") =>
        LET queries == Queries(call.query)
        IN /\ ~call.out.raised
           /\ call.results = HitsOfAnswered(queries, call.ddgs)
           /\ Urls(call.out.value) = Urls(HitsOfAnswered(queries, call.ddgs))
           /\ (\A i \in 1..Len(queries) : call.ddgs[i].raised) => call.out.value = <<>>

C8_Witness ==
    /\ Called("web_search")
    /\ Len(call.ddgs) = 2
    /\ call.ddgs[1].raised
    /\ ~call.ddgs[2].raised
    /\ Len(call.out.value) = 2

\* the hits of the call whose fetch was attempted and gave no content
FailedFetches == {k \in 1..Len(call.urls) :
                     /\ \E m \in 1..Len(call.fetched) : call.fetched[m] = k
                     /\ ScrapeUrl(call.web[k]) = NoText}

WithoutUrl(rows, url) == SelectSeq(rows, LAMBDA row : row.url # url)

\* the call's output if the fetch of hit k had given content
IfSucceeded(k) == ScraperRun(call.urls, [call.web EXCEPT ![k] = Return(1)]).value

\* the call's output if hit k had not been in the input
IfAbsent(k) == ScraperRun(RemoveAt(call.urls, k), RemoveAt(call.web, k)).value

FetchesCapped ==
    /\ Len(call.fetched) <= ScrapeLimit
    /\ \A m \in 1..Len(call.fetched) : call.fetched[m] <= ScrapeLimit

\* C9 as claimed: at most 10 fetches, all among the first 10 hits; a hit whose
\* fetch fails gives no row, and the rows of the other hits are those the call
\* would give had that hit succeeded, and those it would give had that hit
\* been absent.
C9_AsIfSucceededOrAbsent ==
    Called("scraper") =>
        /\ ~call.out.raised
        /\ FetchesCapped
        /\ \A k \in FailedFetches :
              /\ \A j \in 1..Len(call.out.value) : call.out.value[j].url # call.urls[k].url
              /\ call.out.value = WithoutUrl(IfSucceeded(k), call.urls[k].url)
              /\ call.out.value = IfAbsent(k)

\* C9 as amended: as above, but the rows are those of the call without the
\* failing hit only when the input has at most 10 hits.
C9_AsIfSucceeded ==
    Called("scraper") =>
        /\ ~call.out.raised
        /\ FetchesCapped
        /\ \A k \in FailedFetches :
              /\ \A j \in 1..Len(call.out.value) : call.out.value[j].url # call.urls[k].url
              /\ call.out.value = WithoutUrl(IfSucceeded(k), call.urls[k].url)
              /\ Len(call.urls) <= ScrapeLimit => call.out.value = IfAbsent(k)

C9_Witness ==
    /\ Called("scraper")
    /\ Len(call.urls) = ScrapeLimit + 1
    /\ Len(call.fetched) = ScrapeLimit
    /\ FailedFetches = {3}
    /\ Len(call.out.value) = ScrapeLimit - 1
    /\ Len(IfAbsent(3)) = ScrapeLimit

HasContent(page) == TruthyText(Get(page, "content", 0))

\* C10: without a model, ExtractionAgent.run gives one job for each page that
\* has content, in order, and none for a page whose content is missing or empty.
C10_FallbackSkipsEmptyPages ==
    (Called("extraction") /\ ~llm) =>
        LET kept == SelectSeq(call.pages, HasContent)
        IN /\ ~call.out.raised
           /\ call.out.value = [i \in 1..Len(kept) |-> MockJob(kept[i]).value]

\* C11: every job ExtractionAgent.run returns, with or without a model, has a
\* non-empty job_title and a non-empty company, also for a page whose title is
\* the empty string.
C11_TitleAndCompanyNonEmpty ==
    (Called("extraction") /\ ~call.out.raised) =>
        \A i \in 1..Len(call.out.value) :
            /\ call.out.value[i].job_title # ""
            /\ call.out.value[i].company # ""

\* what the page at position i of the call gives: no job or one job
JobsOfPage(i) ==
    LET item == call.pages[i]
    IN IF ~llm THEN <<MockJob(item).value>>
       ELSE IF ~HasContent(item) \/ call.model[i].raised THEN <<>>
       ELSE LET res == call.model[i].value
            IN <<IF Truthy(res.apply_url) THEN res
                 ELSE [res EXCEPT !.apply_url = Get(item, "url", "")]>>

\* C12: with or without a model, ExtractionAgent.run raises for no input, also
\* not for pages whose title, snippet or url is missing or null; it returns no
\* more jobs than pages, each page giving no job or one job, in page order.
C12_AtMostOnePerPageNoRaise ==
    Called("extraction") =>
        /\ ~call.out.raised
        /\ Len(call.out.value) <= Len(call.pages)
        /\ call.out.value = Flatten([i \in 1..Len(call.pages) |-> JobsOfPage(i)])

\* the lookup errors _geocode_location catches
Caught == {"GeocoderTimedOut", "GeocoderServiceError"}

\* the jobs of the call whose lookup is made and raises an error that is not
\* caught
Uncaught == {i \in 1..Len(call.jobs) :
                /\ GeocodeLocation(call.jobs[i].location, call.geocoder[i]).looked = 1
                /\ call.geocoder[i].raised
                /\ call.geocoder[i].cause \notin Caught}

Matching(location) ==
    {k \in 1..Len(CITY_CACHE) : Contains(CITY_CACHE[k].key, Strip(Lower(location)))}

\* C14: for a non-empty location whose lowercased, trimmed form contains a key
\* of CITY_CACHE, _geocode_location returns the coordinates of the first such
\* key of the table and neither sleeps nor calls the geocoder;
\* "Koramangala, Bangalore" gives (12.9716, 77.5946).
C14_CacheHitFirstKey ==
    (Called("geocode_location") /\ Truthy(call.location)) =>
        /\ Matching(call.location) # {} =>
              /\ \E k \in Matching(call.location) :
                    /\ \A m \in Matching(call.location) : k <= m
                    /\ call.out = Return(CITY_CACHE[k].coords)
              /\ call.slept = 0
              /\ call.looked = 0
        /\ call.location = "Koramangala, Bangalore" =>
              call.out = Return(<<129716, 775946>>)

C14_Witness ==
    /\ Called("geocode_location")
    /\ call.location = "Pune / Mumbai"
    /\ Matching(call.location) = {3, 8}
    /\ call.out = Return(<<190760, 728777>>)
    /\ call.lookup = Raise("ValueError")
    /\ call.looked = 0

\* C15: _geocode_location never raises; it returns the default centre
\* (20.5937, 78.9629) without a lookup when the location is empty or None, and
\* when no key of CITY_CACHE matches and the lookup raises any error or finds
\* nothing.
C15_DefaultCentreNeverRaises ==
    Called("geocode_location") =>
        /\ ~call.out.raised
        /\ ~Truthy(call.location) =>
              /\ call.out = Return(INDIA_CENTER)
              /\ call.looked = 0
        /\ ( /\ Truthy(call.location)
             /\ Matching(call.location) = {}
             /\ (call.lookup.raised \/ call.lookup.value = <<>>) ) =>
              call.out = Return(INDIA_CENTER)

\* whether embedding and upsert of the i-th job of the call succeeded
Upserted(i) == pinecone /\ call.embed[i]

\* C16: when no database call fails, every job of the batch has its row
\* committed, in order, whatever embeddings or upserts failed; the row of a job
\* whose upsert succeeded has the job's own id as embedding_id, the row of a
\* job whose embedding or upsert failed (or was not attempted) has none.
C16_EmbeddingFailureIsolated ==
    (Called("indexing") /\ call.db_fail = 0) =>
        /\ Len(call.committed) = Len(call.jobs)
        /\ \A i \in 1..Len(call.jobs) :
              LET row == call.committed[i]
              IN /\ row.job_title = call.jobs[i].job_title
                 /\ row.company = call.jobs[i].company
                 /\ row.id # NoId
                 /\ row.id = call.out.value[i].id
                 /\ Upserted(i) => row.embedding_id = row.id
                 /\ ~Upserted(i) => row.embedding_id = NoId

C16_Witness ==
    /\ Called("indexing")
    /\ call.run = 1
    /\ pinecone
    /\ call.db_fail = 0
    /\ call.embed = <<TRUE, FALSE, TRUE>>
    /\ Len(call.committed) = 3
    /\ call.committed[1].embedding_id = call.committed[1].id
    /\ call.committed[2].embedding_id = NoId
    /\ call.committed[3].embedding_id = call.committed[3].id

Count(log, op) == Cardinality({k \in 1..Len(log) : log[k] = op})

\* C17: a run commits at most once and only after a row was added for every
\* job of the batch; when a database call fails, in the loop or in the commit,
\* it rolls back instead; the rows it leaves in the table are those of all
\* jobs of the batch or none, so the table grows by the whole batch or not at
\* all.
C17_AllOrNothing ==
    Called("indexing") =>
        /\ Count(call.session, "commit") <= 1
        /\ \A k \in 1..Len(call.session) :
              call.session[k] = "commit" =>
                 /\ k = Len(call.jobs) + 2
                 /\ \A m \in 2..(k - 1) : call.session[m] = "add"
        /\ call.db_fail = 0 =>
              /\ Count(call.session, "commit") = 1
              /\ Count(call.session, "rollback") = 0
              /\ Len(call.committed) = Len(call.jobs)
        /\ call.db_fail # 0 =>
              /\ Count(call.session, "commit") = 0
              /\ Count(call.session, "rollback") = 1
              /\ call.committed = <<>>
        /\ Len(call.db) - Len(call.db_before) \in {0, Len(call.jobs)}

C17_Witness ==
    /\ Called("indexing")
    /\ call.run = 1
    /\ Len(call.jobs) = 3
    /\ call.db_fail = 3
    /\ call.session = <<"SessionLocal", "add", "add", "rollback", "close">>
    /\ call.committed = <<>>
    /\ call.db = <<>>

\* C18: a run that rolled back still returns the records of the jobs whose
\* row had been added before the failure, none of which is in the table.
C18_ReturnsUncommitted ==
    (Called("indexing") /\ call.rolled_back) =>
        /\ ~call.out.raised
        /\ Len(call.out.value) = call.db_fail - 1
        /\ \A i \in 1..Len(call.out.value) :
              /\ call.out.value[i].job_title = call.jobs[i].job_title
              /\ call.out.value[i].id = call.ids[i]
              /\ \A k \in 1..Len(call.db) : call.db[k].id # call.out.value[i].id

C18_Witness ==
    /\ Called("indexing")
    /\ call.run = 1
    /\ call.rolled_back
    /\ call.db_fail = 4
    /\ Len(call.out.value) = 3
    /\ call.db = <<>>

\* C19: in every run the session is opened once, at the start, and closed
\* once, as the last thing done with it, after the commit or the rollback.
C19_SessionClosedOnce ==
    Called("indexing") =>
        LET n == Len(call.session)
        IN /\ Count(call.session, "SessionLocal") = 1
           /\ Count(call.session, "close") = 1
           /\ call.session[1] = "SessionLocal"
           /\ call.session[n] = "close"
           /\ call.session[n - 1] = IF call.rolled_back THEN "rollback" ELSE "commit"

C19_Witness ==
    /\ Called("indexing")
    /\ call.run = 2
    /\ call.rolled_back
    /\ call.db_fail = 2
    /\ call.session = <<"SessionLocal", "add", "rollback", "close">>

\* C20: the identifiers a run generates differ from each other and from every
\* identifier generated before it; rows in the table never share an id; a
\* second run on the same jobs leaves the rows of the first run as they were
\* and, when both runs commit, adds a second row for every job, equal to the
\* first but for its id (and embedding_id).
C20_FreshIdsNoDedup ==
    Called("indexing") =>
        LET n == Len(call.jobs)
        IN /\ \A i, j \in 1..Len(call.ids) : i # j => call.ids[i] # call.ids[j]
           /\ \A i \in 1..Len(call.ids) : call.ids[i] \notin call.ids_before
           /\ \A i, j \in 1..Len(call.db) : i # j => call.db[i].id # call.db[j].id
           /\ SubSeq(call.db, 1, Len(call.db_before)) = call.db_before
           /\ (call.run = 2 /\ Len(call.db_before) = n /\ ~call.rolled_back) =>
                 /\ Len(call.db) = 2 * n
                 /\ \A i \in 1..n :
                       /\ call.db[n + i].id # call.db[i].id
                       /\ DbJob(call.jobs[i], NoId, NoId)
                            = [call.db[i] EXCEPT !.id = NoId, !.embedding_id = NoId]
                       /\ DbJob(call.jobs[i], NoId, NoId)
                            = [call.db[n + i] EXCEPT !.id = NoId, !.embedding_id = NoId]

C20_Witness ==
    /\ Called("indexing")
    /\ call.run = 2
    /\ Len(call.jobs) = 2
    /\ call.jobs[1] = call.jobs[2]
    /\ Len(call.db) = 4
    /\ Cardinality({call.db[k].id : k \in 1..4}) = 4

\* C23: with a model, ExtractionAgent.run returns; the model is invoked once
\* for each page that has content, in page order, and for no other page; the
\* jobs returned are those of the pages whose invocation did not raise, in
\* page order, each as the model gave it except that a job without apply_url
\* has the url of its page; a page whose invocation raised gives nothing and
\* does not stop the pages after it.
C23_LLMSkipsFailedAndEmpty ==
    (Called("extraction") /\ llm) =>
        LET pages == call.pages
            asked == {i \in 1..Len(pages) : HasContent(pages[i])}
            emitted == {i \in asked : ~call.model[i].raised}
            Rank(S, i) == Cardinality({j \in S : j <= i})
        IN /\ ~call.out.raised
           /\ Len(call.invoked) = Cardinality(asked)
           /\ \A i \in asked : call.invoked[Rank(asked, i)].page = i
           /\ Len(call.out.value) = Cardinality(emitted)
           /\ \A i \in emitted :
                 LET res == call.model[i].value
                     job == call.out.value[Rank(emitted, i)]
                 IN /\ job.job_title = res.job_title
                    /\ job.company = res.company
                    /\ job.location = res.location
                    /\ job.description = res.description
                    /\ job.apply_url = IF Truthy(res.apply_url) THEN res.apply_url
                                       ELSE Get(pages[i], "url", "")

C23_Witness ==
    /\ Called("extraction")
    /\ llm
    /\ Len(call.pages) = 2
    /\ HasContent(call.pages[1]) /\ HasContent(call.pages[2])
    /\ call.model[1].raised
    /\ ~call.model[2].raised
    /\ call.model[2].value.apply_url = None
    /\ Len(call.invoked) = 2
    /\ Len(call.out.value) = 1
    /\ call.out.value[1].apply_url = "https://a.example/jobs/1"

\* a non-empty location that contains no key of CITY_CACHE
TableMiss(location) == Truthy(location) /\ Matching(location) = {}

\* C24: a call of _geocode_location sleeps the fixed delay and then makes one
\* lookup when the location is a table miss, and does neither otherwise; in a
\* run over several jobs every lookup comes right after the delay of the same
\* job, no job has more than one lookup, and which jobs get them depends on
\* their own location only, whatever the lookups before them did.
C24_DelayBeforeEachLookup ==
    /\ Called("geocode_location") =>
          call.steps = IF TableMiss(call.location)
                       THEN <<"time.sleep(1)", "geocode">> ELSE <<>>
    /\ Called("geocoding") =>
          /\ \A k \in 1..Len(call.steps) :
                call.steps[k].op = "geocode" =>
                   /\ k > 1
                   /\ call.steps[k - 1] = [job |-> call.steps[k].job,
                                           op |-> "time.sleep(1)"]
          /\ \A i \in 1..Len(call.called) :
                LET of_job == SelectSeq(call.steps, LAMBDA e : e.job = call.called[i])
                IN Len(of_job) = IF TableMiss(call.jobs[call.called[i]].location)
                                 THEN 2 ELSE 0

C24_Witness ==
    /\ Called("geocoding")
    /\ Len(call.jobs) = 2
    /\ call.jobs[1].location = "Timbuktu"
    /\ call.jobs[2].location = "Timbuktu"
    /\ call.geocoder[1] = Raise("GeocoderTimedOut")
    /\ call.geocoder[2] = Return(<<>>)
    /\ call.steps = << [job |-> 1, op |-> "time.sleep(1)"], [job |-> 1, op |-> "geocode"],
                       [job |-> 2, op |-> "time.sleep(1)"], [job |-> 2, op |-> "geocode"] >>

\* C25: the vector index holds, after a run, a vector under the id of every
\* job of the run whose upsert succeeded, also when the run rolled back; after
\* a rollback no row of the table has the id of any of these vectors.
C25_VectorsSurviveRollback ==
    Called("indexing") =>
        LET upserted == {i \in 1..Len(call.ids) : Upserted(i)}
        IN /\ Len(call.vectors) = Cardinality(upserted)
           /\ {call.vectors[k] : k \in 1..Len(call.vectors)}
                 = {call.ids[i] : i \in upserted}
           /\ call.rolled_back =>
                 \A k \in 1..Len(call.vectors), m \in 1..Len(call.db) :
                     call.db[m].id # call.vectors[k]

C25_Witness ==
    /\ Called("indexing")
    /\ call.run = 1
    /\ pinecone
    /\ Len(call.jobs) = 3
    /\ call.embed = <<TRUE, TRUE, TRUE>>
    /\ call.db_fail = 3
    /\ call.rolled_back
    /\ call.vectors = call.ids
    /\ Len(call.vectors) = 3
    /\ call.db = <<>>

-----------------------------------------------------------------------------
(* Properties of the API process (ServerSpec) *)

\* C21: at most one VectorStore is ever constructed; every handler that has
\* got its vector store got that one instance, in whatever order requests
\* arrive and handlers run; once _vector_store is set it never changes.
C21_OneVectorStore ==
    /\ [](/\ Len(server.made) <= 1
          /\ \A k \in 1..Len(server.requests) :
                server.requests[k].pc = "done" =>
                   /\ server.requests[k].vs = server.made[1].id
                   /\ server.requests[k].vs = server.vector_store)
    /\ [][server.vector_store # NoId =>
             /\ server'.vector_store = server.vector_store
             /\ server'.made = server.made]_vars

C21_Witness ==
    /\ Len(server.requests) = 3
    /\ {server.requests[k].endpoint : k \in 1..3} = Endpoints
    /\ server.requests[1].pc = "start"
    /\ server.requests[2].pc = "done"
    /\ server.requests[3].pc = "done"
    /\ Len(server.made) = 1
    /\ server.requests[2].vs = server.requests[3].vs

-----------------------------------------------------------------------------
(* Properties of concurrent runs (ConcSpec) *)

\* the state of a run of its own: initial_state for query, then the first n
\* nodes of log with the outcomes recorded there
RECURSIVE Replay(_, _, _)
Replay(query, log, n) ==
    IF n = 0 THEN InitialState(query)
    ELSE NodeBody(Replay(query, log, n - 1), StageField[log[n].node],
                  StageName[log[n].node], log[n].out).state

\* C22: at every point of two runs interleaved in any way, the state of each
\* started run is the one a run of its own would have after the same nodes
\* with the same agent outcomes, starting from the fresh initial state for its
\* query; every node was handed the field of that run's own state; and a run
\* that has come back returned that state.
C22_RunsDoNotShareState ==
    \A t \in 1..ConcurrentRuns :
        tasks[t].started =>
            LET log == tasks[t].inputs
            IN /\ tasks[t].state = Replay(tasks[t].query, log, Len(log))
               /\ \A i \in 1..Len(log) :
                     /\ log[i].node = StageOrder[i]
                     /\ log[i].arg = Replay(tasks[t].query, log, i - 1)[StageArg[log[i].node]]
               /\ tasks[t].result # <<>> =>
                     tasks[t].result = <<Return(Replay(tasks[t].query, log, Len(StageOrder)))>>

C22_Witness ==
    /\ tasks[1].started /\ tasks[2].started
    /\ tasks[1].query = "python jobs Pune"
    /\ tasks[2].query = None
    /\ Len(tasks[1].inputs) = 2
    /\ tasks[1].next_nodes = {"extract"}
    /\ tasks[1].state.error = "Search error: boom"
    /\ tasks[1].state.scraped_content = <<>>
    /\ Len(tasks[2].inputs) = 3
    /\ tasks[2].next_nodes = {"geocode"}
    /\ tasks[2].state.error = ""
    /\ Len(tasks[2].state.extracted_jobs) = 1

====
